---- MODULE Spec2Model ----
(***************************************************************************)
(* One DMA stream of embassy-stm32 (src/embassy-stm32/src/dma/dma.rs):     *)
(* the per-channel ChannelState, the stream's registers, the task-side     *)
(* operations start_write / start_read / set_waker / request_stop, the     *)
(* interrupt handler on_irq_inner, and the DMA engine as a second actor.   *)
(*                                                                         *)
(* A u32 register value is the pair <<high half-word, low half-word>> so   *)
(* that 0xFFFF_FFFF and wrapping 32-bit additions are exact.               *)
(*                                                                         *)
(* The Ethernet transmit descriptor ring TDesRing                          *)
(* (src/embassy-stm32/src/eth/v1c/descriptors.rs): its descriptors, held   *)
(* buffers and cursor, transmit and on_interrupt, and the MAC's DMA engine *)
(* completing descriptors.                                                 *)
(*                                                                         *)
(* The Ethernet receive descriptor rings RDesRing: the tail-pointer ring   *)
(* of descriptors.rs and the chained ring of rx_desc.rs                    *)
(* (src/embassy-stm32/src/eth/v1c/), with init, pop_packet and the engine  *)
(* storing received frames.                                                *)
(*                                                                         *)
(* The basic timer (src/embassy-stm32/src/timer/basic_timer.rs): the       *)
(* state behind the PeripheralMutex, start, stop, the polls of tick(), the *)
(* interrupt handler on_interrupt, and the timer's update events.          *)
(***************************************************************************)
EXTENDS Integers, Sequences, FiniteSets, TLC

VARIABLES
    giant_transfer_enabled, \* ChannelState.giant_transfer_enabled
    remaining_chunks,       \* ChannelState.remaining_chunks (u32)
    chunk_size,             \* ChannelState.chunk_size (u16)
    transfer_len_bytes,     \* ChannelState.transfer_len_bytes (u8)
    waker,                  \* ChannelState.waker holds a registered waker
    cr,                     \* stream control register: en, teie, tcie, dbm, ct
    m0ar, m1ar,             \* memory address registers
    ndtr,                   \* live transfer counter
    tcif, teif,             \* status flags of the stream
    ndtr_reload,            \* engine: the count reloaded at a buffer switch
    stopping,               \* engine: EN was cleared under a running stream
    pc,                     \* task: "idle", or "stop" inside request_stop
    panicked,               \* a panic!/assert! fired: the context is dead
    req,                    \* history: the request of the last start
    hw_chunks,              \* history: start addresses the engine has taken up
    woken,                  \* history: the registered waker has been woken
    cancelled,              \* history: request_stop ran since the last start
    awaiting,               \* history: waiter registered when request_stop hit a running stream
    faulted,                \* history: the engine raised a genuine bus error
    last                    \* history: the step taken last

VARIABLES
    pool_base,              \* address of the packet pool's first PacketBuf
    pool,                   \* packets free in the pool
    td,                     \* TDesRing.td: per slot tdes0, tdes2, tdes3
    buffers,                \* TDesRing.buffers: per slot a packet, or 0 for None
    tdidx,                  \* TDesRing.tdidx
    dtpr,                   \* DMACTxDTPR: the slot the tail pointer names
    hw_tdidx,               \* engine: the descriptor the MAC's DMA works on next
    result,                 \* what the last ring operation returned
    transmits               \* history: the number of transmit calls so far

VARIABLES
    rx_kind,                \* which RDesRing: "tail" (descriptors.rs), "chained" (rx_desc.rs)
    rd,                     \* RDesRing.rd / descriptors: per slot the descriptor words
    rx_buffers,             \* RDesRing.buffers: per slot a packet, or 0 for None
    read_idx,               \* RDesRing.read_idx (next_idx in rx_desc.rs)
    next_tail_idx,          \* RDesRing.next_tail_idx
    rx_dtpr,                \* DMACRxDTPR: the slot the tail pointer names
    hw_rdidx,               \* engine: the descriptor it stores the next frame in
    rx_ready,               \* init has run
    popped,                 \* the packet the last pop_packet returned, or 0 for None
    rx_note,                \* history: what the last pop_packet did
    frames,                 \* history: the number of frames received so far
    stores                  \* history: the stores of the last step that handed a buffer over, in program order

VARIABLES
    ready,                  \* StateInner.ready
    update_waker,           \* StateInner.update_waker: a waker is registered
    cen,                    \* TIMx_CR1.CEN: the counter runs
    uie,                    \* TIMx_DIER.UIE: the update interrupt is enabled
    uif,                    \* TIMx_SR.UIF: the update flag
    irq_pending,            \* the timer's interrupt is pending
    polled,                 \* what the last poll of tick() returned, "none" before the first
    tick_woken,             \* the task polling tick() has been woken
    update_seen             \* history: on_interrupt saw an update event no tick() has returned Ready for

chan == <<giant_transfer_enabled, remaining_chunks, chunk_size, transfer_len_bytes>>
regs == <<cr, m0ar, m1ar, ndtr, tcif, teif>>
hist == <<req, hw_chunks, woken, cancelled, awaiting, faulted>>
dma == <<chan, waker, regs, ndtr_reload, stopping, pc, hist>>
ring == <<td, buffers, tdidx, dtpr>>
tx == <<ring, hw_tdidx, result, transmits>>
rxring == <<rd, rx_buffers, read_idx, next_tail_idx, rx_dtpr>>
rx == <<rx_kind, rxring, hw_rdidx, rx_ready, popped, rx_note, frames>>
eth == <<pool_base, pool, tx, rx, stores>>
tim == <<ready, update_waker, cen, uie, uif, irq_pending, polled, tick_woken, update_seen>>
vars == <<chan, waker, regs, ndtr_reload, stopping, pc, panicked, hist, last, eth, tim>>

----------------------------------------------------------------------------
(* Bounds and inputs *)

\* the hardware per-chunk limit 0xffff
Limit == 65535

\* lengths with data_len / 0xffff above this are left out of the inputs
MaxEstimate == 4

\* SpecChunk takes the lengths 0x10000 + 2018 * j for j up to this
MaxJ == 150

\* ... among them those whose chunk search ends within this many increments
MaxSearch == 8

\* 2^16: the halves of a u32, and the range of a u16
Half == Limit + 1

U32(hi, lo) == <<hi, lo>>

\* 0xffff_ffff
Poison == U32(65535, 65535)

\* wrapping u32 addition of a natural number
Add32(a, n) ==
    LET s == a[2] + n
    IN  U32((a[1] + (s \div Half)) % Half, s % Half)

LenCandidates ==
    {0, 2, 65535, 65536, 65537, 131070, 200000, 262140, 327678, 393210}

Lens == {l \in LenCandidates : l \div Limit <= MaxEstimate}

\* the buffers a caller passes: one at 0x2001_F000
Bases == {U32(8193, 61440)}

\* vals::Size BITS8, BITS16, BITS32 as byte widths
Sizes == {1, 2, 4}

ChunkLens ==
    {l \in {Half + 2018 * j : j \in 0..MaxJ}
            \cup {m * Limit : m \in 2..(MaxEstimate + 4)}
            \cup LenCandidates :
        /\ l > Limit
        /\ l % 2 = 0
        /\ \E k \in (l \div Limit + 1)..(l \div Limit + 1 + MaxSearch) : l % k = 0}

\* requests start_giant_transfer has to refuse
MalformedLens == {0, 2, 65534, 65535, 65537, 131071, 200001}

----------------------------------------------------------------------------
(* ChannelState *)

\* chunk_estimate + 1
FirstChunks_WideLimit(data_len) == data_len \div 1048575 + 1

FirstChunks_PlusTwo(data_len) == data_len \div Limit + 2

FirstChunks(data_len) == data_len \div Limit + 1

\* while data_len % chunks != 0 { chunks += 1 }
RECURSIVE ChunkSearch(_, _)
ChunkSearch(data_len, chunks) ==
    IF data_len % chunks # 0 THEN ChunkSearch(data_len, chunks + 1) ELSE chunks

Chunks(data_len) == ChunkSearch(data_len, FirstChunks(data_len))

InitialRemaining_MinusOne(chunks) == chunks - 1

\* let remaining_chunks = chunks - 2
InitialRemaining(chunks) == chunks - 2

\* `as u16`
AsU16(n) == n % Half

\* M1AR(data_addr + chunk_size as u32 * transfer_len_bytes as u32)
SecondBuffer(data_addr, csize, len_bytes) == Add32(data_addr, csize * len_bytes)

\* dequeue_next_chunk: prev_mem_ptr + 2 * chunk_size * transfer_len_bytes
NextChunkAddr(prev_mem_ptr, csize, len_bytes) ==
    Add32(prev_mem_ptr, 2 * csize * len_bytes)

RemainingTransfers_ChunksOnly(n) == n + remaining_chunks

\* remaining_transfers(ndtr)
RemainingTransfers(n) == n + remaining_chunks * chunk_size

DisableGiantTransfer_Omitted(flag) == flag

\* disable_giant_transfer(): the value the flag holds afterwards
DisableGiantTransfer(flag) == FALSE

GiantPrecondition_EvenOnly(mem_len) == mem_len % 2 = 0

\* assert!(mem_len > 0xffff); assert!(mem_len % 2 == 0);
GiantPrecondition(mem_len) == mem_len > Limit /\ mem_len % 2 = 0

----------------------------------------------------------------------------
(* Registers *)

DisabledCr_EnLeftSet ==
    [en |-> TRUE, teie |-> FALSE, tcie |-> FALSE, dbm |-> FALSE, ct |-> 0]

\* cr.write(|_| ()): the reset value, channel disabled
DisabledCr ==
    [en |-> FALSE, teie |-> FALSE, tcie |-> FALSE, dbm |-> FALSE, ct |-> 0]

\* the interrupt line of the stream is asserted
PendingIrq == (tcif /\ cr.tcie) \/ (teif /\ cr.teie)

\* low_level_api::get_remaining_transfers
GetRemainingTransfers ==
    IF giant_transfer_enabled THEN RemainingTransfers(ndtr) ELSE ndtr

\* the address register the engine is working from
CurrentTarget == IF cr.ct = 1 THEN m1ar ELSE m0ar

----------------------------------------------------------------------------
(* Initial state: ChannelState::new() and the stream at its reset values *)

NoRequest == [kind |-> "none", len |-> 0, addr |-> U32(0, 0), size |-> 1]

ChannelInit ==
    /\ giant_transfer_enabled = FALSE
    /\ remaining_chunks = 0
    /\ chunk_size = 0
    /\ transfer_len_bytes = 0
    /\ waker = FALSE
    /\ cr = [en |-> FALSE, teie |-> FALSE, tcie |-> FALSE, dbm |-> FALSE, ct |-> 0]
    /\ m0ar = U32(0, 0)
    /\ m1ar = U32(0, 0)
    /\ ndtr = 0
    /\ tcif = FALSE
    /\ teif = FALSE
    /\ ndtr_reload = 0
    /\ stopping = FALSE
    /\ pc = "idle"
    /\ panicked = FALSE
    /\ req = NoRequest
    /\ hw_chunks = <<>>
    /\ woken = FALSE
    /\ cancelled = FALSE
    /\ awaiting = FALSE
    /\ faulted = FALSE
    /\ last = "init"

----------------------------------------------------------------------------
(* TDesRing: descriptors, packets and construction *)

\* TDesRing<N>
N == 4

Slots == 0 .. (N - 1)

\* the packets of the pool; 0 stands for no packet
Packets == 1 .. (N + 1)

\* the transmit calls of a run: enough to go round the ring and two further
MaxTransmits == N + 2

\* size_of::<PacketBuf>(): the distance between two packets of the pool
PacketStride == 1520

\* where the pool may lie: internal SRAM at 0x3000_7000, external SDRAM at
\* 0xC000_7000
PoolBases == {U32(12288, 28672), U32(49152, 28672)}

\* pkt.as_ptr() as u32
PktAddr(pkt) == Add32(pool_base, PacketStride * (pkt - 1))

\* pkt.len(): a full frame for odd packets, a minimal one for even packets
PktLen(pkt) == IF pkt % 2 = 1 THEN 1514 ELSE 60

\* word & TXDESC_0_OWN != 0 (bit 31)
TXDESC_0_OWN(word) == word[1] \div 32768 = 1

\* word & TXDESC_0_ES != 0 (bit 15)
TXDESC_0_ES(word) == word[2] \div 32768 = 1

\* TDes::new()
TDesNew == [tdes0 |-> U32(0, 0), tdes2 |-> [b1l |-> 0, ioc |-> FALSE], tdes3 |-> {}]

\* TDesRing::new() followed by TDesRing::init(), over a pool at base
TDesRingInit(base) ==
    /\ pool_base = base
    /\ pool = Packets
    /\ td = [x \in Slots |-> TDesNew]
    /\ buffers = [x \in Slots |-> 0]
    /\ tdidx = 0
    /\ dtpr = 0
    /\ hw_tdidx = 0
    /\ result = "none"
    /\ transmits = 0

\* RDes::new() of descriptors.rs: rdes0 the buffer address, rdes3 OWN and
\* status
RDesNew == [rdes0 |-> U32(0, 0), rdes3 |-> {}]

\* RDes::new() of rx_desc.rs: rdes0 OWN and status, rdes1 control, rdes2 the
\* buffer address, rdes3 the address of the next descriptor
RxDescNew == [rdes0 |-> {}, rdes1 |-> {}, rdes2 |-> U32(0, 0), rdes3 |-> 0]

NoNote == [read |-> FALSE, alloc |-> "none", valid |-> FALSE, again |-> FALSE]

\* RDesRing::new() of the ring of the given kind
RDesRingNew(kind) ==
    /\ rx_kind = kind
    /\ rd = [x \in Slots |-> IF kind = "tail" THEN RDesNew ELSE RxDescNew]
    /\ rx_buffers = [x \in Slots |-> 0]
    /\ read_idx = 0
    /\ next_tail_idx = 0
    /\ rx_dtpr = 0
    /\ hw_rdidx = 0
    /\ rx_ready = FALSE
    /\ popped = 0
    /\ rx_note = NoNote
    /\ frames = 0
    /\ stores = << >>

\* Timer::new: the state the PeripheralMutex is built with, and the timer
\* after its reset
TimerInit ==
    /\ ready = FALSE
    /\ update_waker = FALSE
    /\ cen = FALSE
    /\ uie = FALSE
    /\ uif = FALSE
    /\ irq_pending = FALSE
    /\ polled = "none"
    /\ tick_woken = FALSE
    /\ update_seen = FALSE

Init ==
    /\ ChannelInit
    /\ TDesRingInit(U32(12288, 28672))
    /\ RDesRingNew("tail")
    /\ TimerInit

InitTx ==
    /\ ChannelInit
    /\ \E base \in PoolBases : TDesRingInit(base)
    /\ RDesRingNew("tail")
    /\ TimerInit

InitRx ==
    /\ ChannelInit
    /\ TDesRingInit(U32(12288, 28672))
    /\ \E kind \in {"tail", "chained"} : RDesRingNew(kind)
    /\ TimerInit

----------------------------------------------------------------------------
(* Task side *)

\* panic!/assert!: nothing is written, the faulting context ends
Panic(label) ==
    /\ panicked' = TRUE
    /\ last' = label
    /\ UNCHANGED <<chan, waker, regs, ndtr_reload, stopping, pc, hist>>

\* a start request that panics: the request is noted, nothing else changes
Rejected(op, mem_addr, mem_len, size) ==
    /\ panicked' = TRUE
    /\ req' = [kind |-> "rejected", len |-> mem_len, addr |-> mem_addr, size |-> size]
    /\ last' = (IF op = "write" THEN "write_panic" ELSE "read_panic")
    /\ UNCHANGED <<chan, waker, regs, ndtr_reload, stopping, pc,
                   hw_chunks, woken, cancelled, awaiting, faulted>>

\* the caller owns the channel and starts on a stopped stream
CanStart == ~panicked /\ pc = "idle" /\ ~cr.en /\ ~stopping

NewRequest(kind, mem_addr, mem_len, size) ==
    /\ req' = [kind |-> kind, len |-> mem_len, addr |-> mem_addr, size |-> size]
    /\ woken' = FALSE
    /\ cancelled' = FALSE
    /\ awaiting' = FALSE
    /\ faulted' = FALSE

\* low_level_api::start_transfer
StartTransfer(op, mem_addr, mem_len, size) ==
    /\ tcif' = FALSE
    /\ teif' = FALSE
    /\ giant_transfer_enabled' = DisableGiantTransfer(giant_transfer_enabled)
    /\ m0ar' = mem_addr
    /\ ndtr' = AsU16(mem_len)
    /\ ndtr_reload' = AsU16(mem_len)
    /\ cr' = [en |-> TRUE, teie |-> TRUE, tcie |-> TRUE, dbm |-> FALSE, ct |-> 0]
    /\ hw_chunks' = <<mem_addr>>
    /\ NewRequest("simple", mem_addr, mem_len, size)
    /\ last' = (IF op = "write" THEN "write_transfer" ELSE "read_transfer")
    /\ UNCHANGED <<remaining_chunks, chunk_size, transfer_len_bytes, waker, m1ar,
                   stopping, pc, panicked>>

\* low_level_api::start_giant_transfer with ChannelState::enable_giant_transfer
StartGiantTransfer(op, mem_addr, mem_len, size) ==
    IF ~GiantPrecondition(mem_len)
    THEN Rejected(op, mem_addr, mem_len, size)
    ELSE LET chunks == Chunks(mem_len)
             csize == mem_len \div chunks
         IN  /\ tcif' = FALSE
             /\ teif' = FALSE
             /\ chunk_size' = AsU16(csize)
             /\ remaining_chunks' = InitialRemaining(chunks)
             /\ giant_transfer_enabled' = TRUE
             /\ transfer_len_bytes' = size
             /\ m0ar' = mem_addr
             /\ m1ar' = SecondBuffer(mem_addr, csize, size)
             /\ ndtr' = AsU16(csize)
             /\ ndtr_reload' = AsU16(csize)
             /\ cr' = [en |-> TRUE, teie |-> TRUE, tcie |-> TRUE, dbm |-> TRUE, ct |-> 0]
             /\ hw_chunks' = <<mem_addr>>
             /\ NewRequest("giant", mem_addr, mem_len, size)
             /\ last' = (IF op = "write" THEN "write_giant" ELSE "read_giant")
             /\ UNCHANGED <<waker, stopping, pc, panicked>>

\* sealed::Channel::start_write
StartWrite ==
    /\ CanStart
    /\ UNCHANGED <<eth, tim>>
    /\ \E len \in Lens, ptr \in Bases, size \in Sizes :
         IF len <= Limit THEN StartTransfer("write", ptr, len, size)
         ELSE IF len % 2 = 0 THEN StartGiantTransfer("write", ptr, len, size)
         ELSE Rejected("write", ptr, len, size)

\* sealed::Channel::start_read
StartRead ==
    /\ CanStart
    /\ UNCHANGED <<eth, tim>>
    /\ \E len \in Lens, ptr \in Bases, size \in Sizes :
         IF len < Limit THEN StartTransfer("read", ptr, len, size)
         ELSE IF len % 2 = 0 THEN StartGiantTransfer("read", ptr, len, size)
         ELSE Rejected("read", ptr, len, size)

\* low_level_api::set_waker
SetWaker ==
    /\ ~panicked
    /\ UNCHANGED <<eth, tim>>
    /\ pc = "idle"
    /\ waker' = TRUE
    /\ woken' = FALSE
    /\ last' = "set_waker"
    /\ UNCHANGED <<chan, regs, ndtr_reload, stopping, pc, panicked,
                   req, hw_chunks, cancelled, awaiting, faulted>>

\* low_level_api::request_stop, first step: the write of CR that clears EN
\* and keeps TEIE and TCIE
RequestStopWrite ==
    /\ ~panicked
    /\ UNCHANGED <<eth, tim>>
    /\ pc = "idle"
    /\ cr' = [en |-> FALSE, teie |-> TRUE, tcie |-> TRUE, dbm |-> FALSE, ct |-> 0]
    /\ stopping' = (stopping \/ cr.en)
    /\ pc' = "stop"
    /\ cancelled' = TRUE
    /\ awaiting' = (awaiting \/ (cr.en /\ waker))
    /\ last' = "stop_write"
    /\ UNCHANGED <<chan, waker, m0ar, m1ar, ndtr, tcif, teif, ndtr_reload, panicked,
                   req, hw_chunks, woken, faulted>>

\* low_level_api::request_stop, second step: disable_giant_transfer()
RequestStopClear ==
    /\ ~panicked
    /\ UNCHANGED <<eth, tim>>
    /\ pc = "stop"
    /\ giant_transfer_enabled' = DisableGiantTransfer(giant_transfer_enabled)
    /\ pc' = "idle"
    /\ last' = "stop_clear"
    /\ UNCHANGED <<remaining_chunks, chunk_size, transfer_len_bytes, waker, regs,
                   ndtr_reload, stopping, panicked, hist>>

----------------------------------------------------------------------------
(* The DMA engine.  It moves on only while the stream's interrupt line is   *)
(* idle: the handler preempts the task and runs to completion well within   *)
(* the time a chunk takes.                                                  *)

\* part of the current chunk has been moved
HwProgress ==
    /\ ~panicked
    /\ UNCHANGED <<eth, tim>>
    /\ cr.en
    /\ ~PendingIrq
    /\ ndtr > 1
    /\ ndtr = ndtr_reload
    /\ ndtr' = ndtr \div 2
    /\ last' = "hw_progress"
    /\ UNCHANGED <<chan, waker, cr, m0ar, m1ar, tcif, teif, ndtr_reload, stopping,
                   pc, panicked, hist>>

\* single-buffer mode: the last element is moved, TCIF is set, EN clears
HwTransferComplete ==
    /\ ~panicked
    /\ UNCHANGED <<eth, tim>>
    /\ cr.en
    /\ ~cr.dbm
    /\ ~PendingIrq
    /\ ndtr > 0
    /\ ndtr' = 0
    /\ tcif' = TRUE
    /\ cr' = [cr EXCEPT !.en = FALSE]
    /\ last' = "hw_complete"
    /\ UNCHANGED <<chan, waker, m0ar, m1ar, teif, ndtr_reload, stopping, pc, panicked, hist>>

\* double-buffer mode: the chunk ends, TCIF is set, CT toggles, NDTR is
\* reloaded and the engine goes on from the other address register; an
\* access to 0xffff_ffff is a bus error: TEIF is set and EN clears
HwChunkComplete ==
    /\ ~panicked
    /\ UNCHANGED <<eth, tim>>
    /\ cr.en
    /\ cr.dbm
    /\ ~PendingIrq
    /\ ndtr > 0
    /\ LET ct == 1 - cr.ct
           target == IF ct = 1 THEN m1ar ELSE m0ar
       IN  /\ tcif' = TRUE
           /\ ndtr' = ndtr_reload
           /\ IF target = Poison
              THEN /\ teif' = TRUE
                   /\ cr' = [cr EXCEPT !.ct = ct, !.en = FALSE]
                   /\ hw_chunks' = hw_chunks
              ELSE /\ teif' = teif
                   /\ cr' = [cr EXCEPT !.ct = ct]
                   /\ hw_chunks' = Append(hw_chunks, target)
    /\ last' = "hw_chunk"
    /\ UNCHANGED <<chan, waker, m0ar, m1ar, ndtr_reload, stopping, pc, panicked,
                   req, woken, cancelled, awaiting, faulted>>

\* EN was cleared by software under a running stream: the stream winds down
\* and sets TCIF
HwStopped ==
    /\ ~panicked
    /\ UNCHANGED <<eth, tim>>
    /\ stopping
    /\ stopping' = FALSE
    /\ tcif' = TRUE
    /\ last' = "hw_stopped"
    /\ UNCHANGED <<chan, waker, cr, m0ar, m1ar, ndtr, teif, ndtr_reload, pc, panicked, hist>>

\* a genuine bus error on a running stream: TEIF is set and EN clears
HwFault ==
    /\ ~panicked
    /\ UNCHANGED <<eth, tim>>
    /\ cr.en
    /\ ~PendingIrq
    /\ ~faulted
    /\ teif' = TRUE
    /\ cr' = [cr EXCEPT !.en = FALSE]
    /\ faulted' = TRUE
    /\ last' = "hw_fault"
    /\ UNCHANGED <<chan, waker, m0ar, m1ar, ndtr, tcif, ndtr_reload, stopping, pc, panicked,
                   req, hw_chunks, woken, cancelled, awaiting>>

----------------------------------------------------------------------------
(* Interrupt handler *)

GiantEnd_AnyPoison(giant, a0, a1) == a0 = Poison \/ a1 = Poison

\* is_giant_transfer_enabled() && (m0ar == 0xffff_ffff || m1ar == 0xffff_ffff)
GiantEnd(giant, a0, a1) == giant /\ (a0 = Poison \/ a1 = Poison)

Completion_NoFlag(flag, tcie) == tcie

\* isr.tcif(channel_num % 4) && cr.read().tcie()
Completion(flag, tcie) == flag /\ tcie

\* waker.wake(): takes the registered waker, if any, and wakes it
Wake ==
    /\ waker' = FALSE
    /\ woken' = (woken \/ waker)
    /\ awaiting' = FALSE

\* low_level_api::on_irq_inner
OnIrqInner ==
    /\ ~panicked
    /\ UNCHANGED <<eth, tim>>
    /\ IF teif
       THEN IF GiantEnd(giant_transfer_enabled, m0ar, m1ar)
            THEN /\ teif' = FALSE
                 /\ tcif' = FALSE
                 /\ cr' = DisabledCr
                 /\ giant_transfer_enabled' = DisableGiantTransfer(giant_transfer_enabled)
                 /\ Wake
                 /\ last' = "irq_giant_end"
                 /\ UNCHANGED <<remaining_chunks, chunk_size, transfer_len_bytes, m0ar, m1ar,
                                ndtr, ndtr_reload, stopping, pc, panicked,
                                req, hw_chunks, cancelled, faulted>>
            ELSE Panic("irq_panic")
       ELSE IF giant_transfer_enabled
       THEN IF Completion(tcif, cr.tcie)
            THEN /\ tcif' = FALSE
                 /\ IF remaining_chunks # 0
                    THEN IF remaining_chunks % 2 = 0 /\ cr.ct = 1
                         THEN /\ m0ar' = NextChunkAddr(m0ar, chunk_size, transfer_len_bytes)
                              /\ remaining_chunks' = remaining_chunks - 1
                              /\ m1ar' = m1ar
                              /\ last' = "irq_next_m0"
                         ELSE IF cr.ct # 1
                         THEN /\ m1ar' = NextChunkAddr(m1ar, chunk_size, transfer_len_bytes)
                              /\ remaining_chunks' = remaining_chunks - 1
                              /\ m0ar' = m0ar
                              /\ last' = "irq_next_m1"
                         ELSE /\ last' = "irq_skip"
                              /\ UNCHANGED <<m0ar, m1ar, remaining_chunks>>
                    ELSE /\ IF cr.ct = 1
                            THEN m0ar' = Poison /\ m1ar' = m1ar
                            ELSE m1ar' = Poison /\ m0ar' = m0ar
                         /\ last' = "irq_poison"
                         /\ UNCHANGED remaining_chunks
                 /\ UNCHANGED <<giant_transfer_enabled, chunk_size, transfer_len_bytes, waker,
                                cr, ndtr, teif, ndtr_reload, stopping, pc, panicked, hist>>
            ELSE /\ last' = "irq_none"
                 /\ UNCHANGED <<chan, waker, regs, ndtr_reload, stopping, pc, panicked, hist>>
       ELSE IF Completion(tcif, cr.tcie)
            THEN /\ cr' = DisabledCr
                 /\ Wake
                 /\ last' = "irq_simple_end"
                 /\ UNCHANGED <<chan, m0ar, m1ar, ndtr, tcif, teif, ndtr_reload, stopping, pc,
                                panicked, req, hw_chunks, cancelled, faulted>>
            ELSE /\ last' = "irq_none"
                 /\ UNCHANGED <<chan, waker, regs, ndtr_reload, stopping, pc, panicked, hist>>

IrqLabels ==
    {"irq_giant_end", "irq_panic", "irq_next_m0", "irq_next_m1", "irq_skip",
     "irq_poison", "irq_simple_end", "irq_none"}

----------------------------------------------------------------------------
(* TDesRing: transmit, on_interrupt and the MAC's DMA engine *)

\* TDes::available(): !is_owned(), is_owned() tests TXDESC_0_OWN in tdes0
TDesAvailable(d) == ~TXDESC_0_OWN(d.tdes0)

\* TDesRing::available()
Available == TDesAvailable(td[tdidx])

NoBuffer_CursorMoved ==
    /\ result' = "NoBufferAvailable"
    /\ tdidx' = (tdidx + 1) % N
    /\ UNCHANGED <<pool, td, buffers, dtpr>>

\* return Err(Error::NoBufferAvailable): the packet passed in is dropped
\* and so stays in the pool
NoBuffer ==
    /\ result' = "NoBufferAvailable"
    /\ UNCHANGED <<pool, ring>>

\* the caller's packet: the first or the last free packet of the pool
\* one store of a hand-off: what it writes and the slot it is about
St(w, x) == [w |-> w, slot |-> x]

\* the stores of blocks[0], ..., blocks[k - 1], one block after the other
PerSlot(blocks, k) ==
    LET len == Len(blocks[0])
    IN  [i \in 1 .. (k * len) |-> blocks[(i - 1) \div len][((i - 1) % len) + 1]]

\* TDesRing::transmit, descriptor x, in program order
TransmitStores(x) ==
    << St("address", x),                   \* td.tdes0.set(address)
       St("length", x),                    \* td.tdes2.set(pkt_len | IOC)
       St("flags", x),                     \* td.tdes3.set(FD | LD | OWN)
       St("buffer", x),                    \* self.buffers[x].replace(pkt)
       St("fence_release", x),             \* fence(Ordering::Release)
       St("tail_pointer", (x + 1) % N),    \* dmactx_dtpr().write
       St("cursor", (x + 1) % N) >>        \* self.tdidx = x

Alloc ==
    {pkt \in pool : \/ \A other \in pool : pkt <= other
                    \/ \A other \in pool : pkt >= other}

\* the packets an Option<PacketBuf> gives back when it is dropped
Dropped(held) == IF held = 0 THEN {} ELSE {held}

\* TDesRing::transmit
Transmit ==
    /\ ~panicked
    /\ transmits < MaxTransmits
    /\ transmits' = transmits + 1
    /\ \E pkt \in Alloc :
         IF ~Available
         THEN NoBuffer
         ELSE /\ td' = [td EXCEPT ![tdidx] =
                          [tdes0 |-> PktAddr(pkt),
                           tdes2 |-> [b1l |-> PktLen(pkt), ioc |-> TRUE],
                           tdes3 |-> {"FD", "LD", "OWN"}]]
              /\ buffers' = [buffers EXCEPT ![tdidx] = pkt]
              /\ pool' = (pool \ {pkt}) \cup Dropped(buffers[tdidx])
              /\ dtpr' = (tdidx + 1) % N
              /\ tdidx' = (tdidx + 1) % N
              /\ result' = "Ok"
    /\ stores' = (IF Available THEN TransmitStores(tdidx) ELSE << >>)
    /\ last' = "transmit"
    /\ UNCHANGED <<dma, tim, panicked, pool_base, hw_tdidx, rx>>

\* let previous = (self.tdidx + N - 1) % N
Previous == (tdidx + N - 1) % N

\* TDesRing::on_interrupt
TxOnInterrupt ==
    /\ ~panicked
    /\ LET tdes0 == td[Previous].tdes0
       IN  IF TXDESC_0_OWN(tdes0)
           THEN /\ result' = "Ok"
                /\ UNCHANGED <<pool, ring, panicked>>
           ELSE IF "CTXT" \in td[Previous].tdes3
           THEN /\ panicked' = TRUE
                /\ result' = "none"
                /\ UNCHANGED <<pool, ring>>
           ELSE /\ buffers' = [buffers EXCEPT ![Previous] = 0]
                /\ pool' = pool \cup Dropped(buffers[Previous])
                /\ result' = (IF TXDESC_0_ES(tdes0)
                              THEN "TransmissionError" ELSE "Ok")
                /\ UNCHANGED <<td, tdidx, dtpr, panicked>>
    /\ stores' = << >>
    /\ last' = "tx_on_interrupt"
    /\ UNCHANGED <<dma, tim, pool_base, hw_tdidx, transmits, rx>>

\* the engine takes the descriptors it owns in ring order, sends the frame
\* and writes the descriptor back: OWN cleared, ES set on a failed frame
HwTransmitted ==
    /\ ~panicked
    /\ "OWN" \in td[hw_tdidx].tdes3
    /\ \E es \in {{}, {"ES"}} :
         td' = [td EXCEPT ![hw_tdidx].tdes3 = {"FD", "LD"} \cup es]
    /\ hw_tdidx' = (hw_tdidx + 1) % N
    /\ result' = "none"
    /\ stores' = << >>
    /\ last' = "hw_transmitted"
    /\ UNCHANGED <<dma, tim, panicked, pool_base, pool, buffers, tdidx, dtpr, transmits, rx>>

----------------------------------------------------------------------------
(* RDesRing of descriptors.rs: init, pop_packet and the MAC's DMA engine *)

\* the frames of a run: enough to go round the ring and one further
MaxFrames == N + 1

\* PacketBox::new(Packet::new()): the pool hands out its first free packet
FirstFree(free) == CHOOSE pkt \in free : \A other \in free : pkt <= other

\* the packet the i-th allocation of init gets (i from 0)
InitPkt(i) == CHOOSE pkt \in pool : Cardinality({other \in pool : other < pkt}) = i

\* what PacketBox::new can return: None (0) at any time, or the first free
\* packet
NewPacketBox == {0} \cup (IF pool = {} THEN {} ELSE {FirstFree(pool)})

\* RDes::valid(): first and last buffer of the frame, no error, no context
RDesValid(d) == d.rdes3 \cap {"FD", "LD", "ES", "CTXT"} = {"FD", "LD"}

\* RDes::available(): not owned by the DMA
RDesAvailable(d) == "OWN" \notin d.rdes3

\* RDes::set_ready(buf_addr)
SetReady(buf_addr) == [rdes0 |-> buf_addr, rdes3 |-> {"BUF1V", "IOC", "OWN"}]

NextTail_Zero(k) == 0

\* (last_index + 1) % N after a loop that populated slots 0 .. k - 1
NextTail(k) == ((k - 1) + 1) % N

ReplenishStores_CursorFirst(x) ==
    << St("cursor", (x + 1) % N),
       St("buffer", x),
       St("address", x),
       St("flags", x),
       St("fence_release", x),
       St("tail_pointer", x) >>

\* the replenish step of RDesRing::pop_packet, slot x, in program order
ReplenishStores(x) ==
    << St("buffer", x),                    \* self.buffers[..].replace(b)
       St("address", x),                   \* set_ready: rdes0.set(buf_addr)
       St("flags", x),                     \* set_ready: rdes3.set(BUF1V | IOC | OWN)
       St("fence_release", x),             \* fence(Ordering::Release)
       St("tail_pointer", x),              \* dmacrx_dtpr().write
       St("cursor", (x + 1) % N) >>        \* self.next_tail_idx = ...

\* one round of the allocation loop of RDesRing::init
InitSlotStores(x) ==
    << St("buffer", x),                    \* *buf = Some(pkt)
       St("address", x),                   \* set_ready: rdes0.set(buf_addr)
       St("flags", x) >>                   \* set_ready: rdes3.set(BUF1V | IOC | OWN)

\* RDesRing::init with k buffers, in program order
InitStores(k) ==
    PerSlot([x \in Slots |-> InitSlotStores(x)], k) \o
    << St("cursor", NextTail(k)),          \* self.next_tail_idx = ...
       St("list_address", 0),              \* dmacrx_dlar().write
       St("ring_length", N - 1),           \* dmacrx_rlr().write
       St("fence_release", k - 1),         \* fence(Ordering::Release)
       St("tail_pointer", k - 1) >>        \* dmacrx_dtpr().write

\* RDesRing::init with a pool that yields k buffers (k = N: N or more)
RDesRingInit ==
    /\ ~panicked
    /\ ~rx_ready
    /\ rx_kind = "tail"
    /\ \E k \in 0 .. N :
         IF k = 0
         THEN /\ panicked' = TRUE
              /\ rd' = [x \in Slots |-> RDesNew]
              /\ stores' = << >>
              /\ UNCHANGED <<pool, rx_buffers, next_tail_idx, rx_dtpr, rx_ready>>
         ELSE /\ rd' = [x \in Slots |->
                          IF x < k THEN SetReady(PktAddr(InitPkt(x))) ELSE RDesNew]
              /\ rx_buffers' = [x \in Slots |->
                                  IF x < k THEN InitPkt(x) ELSE rx_buffers[x]]
              /\ pool' = pool \ {InitPkt(x) : x \in 0 .. (k - 1)}
              /\ next_tail_idx' = NextTail(k)
              /\ rx_dtpr' = k - 1
              /\ rx_ready' = TRUE
              /\ stores' = InitStores(k)
              /\ UNCHANGED panicked
    /\ last' = "rx_init"
    /\ UNCHANGED <<dma, tim, pool_base, tx, rx_kind, read_idx, hw_rdidx, popped, rx_note, frames>>

\* what a pop_packet call did: whether its read step consumed a slot, what
\* became of its allocation, whether the frame was valid, and whether it is
\* the second of two calls that did the same
Note(read, alloc, valid) ==
    [read |-> read, alloc |-> alloc, valid |-> valid,
     again |-> /\ last = "pop_packet"
               /\ rx_note.read = read
               /\ rx_note.alloc = alloc
               /\ rx_note.valid = valid
               /\ ~rx_note.again]

\* let tail_index = (self.next_tail_idx + N - 1) % N
TailIndex == (next_tail_idx + N - 1) % N

\* read_available && self.read_idx != tail_index
ReadOk == RDesAvailable(rd[read_idx]) /\ read_idx # TailIndex

Replenish_Always(read1) == TRUE

Replenish_Never(read1) == FALSE

\* if self.next_tail_idx != self.read_idx, after the read step
Replenish(read1) == next_tail_idx # read1

TailPointer_Next(slot) == (slot + 1) % N

\* dmacrx_dtpr().write(&self.rd[self.next_tail_idx])
TailPointer(slot) == slot

\* RDesRing::pop_packet
PopPacket ==
    /\ ~panicked
    /\ rx_ready
    /\ rx_kind = "tail"
    /\ LET taken == IF ReadOk THEN rx_buffers[read_idx] ELSE 0
           valid == ReadOk /\ RDesValid(rd[read_idx])
           read1 == IF ReadOk THEN (read_idx + 1) % N ELSE read_idx
           buffers1 == IF ReadOk THEN [rx_buffers EXCEPT ![read_idx] = 0]
                       ELSE rx_buffers
       IN  IF ReadOk /\ taken = 0
           THEN /\ panicked' = TRUE
                /\ stores' = << >>
                /\ UNCHANGED <<pool, rxring, popped, rx_note>>
           ELSE /\ read_idx' = read1
                /\ popped' = (IF valid THEN taken ELSE 0)
                /\ UNCHANGED panicked
                /\ IF Replenish(read1)
                   THEN \E b \in NewPacketBox :
                          IF b = 0
                          THEN /\ rx_buffers' = buffers1
                               /\ pool' = pool \cup Dropped(taken)
                               /\ rx_note' = Note(ReadOk, "failed", valid)
                               /\ stores' = << >>
                               /\ UNCHANGED <<rd, next_tail_idx, rx_dtpr>>
                          ELSE /\ rx_buffers' = [buffers1 EXCEPT ![next_tail_idx] = b]
                               /\ rd' = [rd EXCEPT ![next_tail_idx] = SetReady(PktAddr(b))]
                               /\ rx_dtpr' = TailPointer(next_tail_idx)
                               /\ next_tail_idx' = (next_tail_idx + 1) % N
                               /\ pool' = ((pool \ {b}) \cup Dropped(taken))
                                            \cup Dropped(buffers1[next_tail_idx])
                               /\ rx_note' = Note(ReadOk, "ok", valid)
                               /\ stores' = ReplenishStores(next_tail_idx)
                   ELSE /\ rx_buffers' = buffers1
                        /\ pool' = pool \cup Dropped(taken)
                        /\ rx_note' = Note(ReadOk, "none", valid)
                        /\ stores' = << >>
                        /\ UNCHANGED <<rd, next_tail_idx, rx_dtpr>>
    /\ last' = "pop_packet"
    /\ UNCHANGED <<dma, tim, pool_base, tx, rx_kind, hw_rdidx, rx_ready, frames>>

\* what the engine writes back into rdes3 with a frame: a whole frame, a
\* frame with an error, the first part of a longer frame, a context
\* descriptor
WriteBacks ==
    {{"FD", "LD"}, {"FD", "LD", "ES"}, {"FD"}, {"FD", "LD", "CTXT"}}

\* the engine stores a frame in the next descriptor it owns, short of the
\* one the tail pointer names, and writes the descriptor back
HwReceived ==
    /\ ~panicked
    /\ rx_ready
    /\ rx_kind = "tail"
    /\ frames < MaxFrames
    /\ hw_rdidx # rx_dtpr
    /\ "OWN" \in rd[hw_rdidx].rdes3
    /\ \E status \in WriteBacks :
         rd' = [rd EXCEPT ![hw_rdidx].rdes3 = status]
    /\ hw_rdidx' = (hw_rdidx + 1) % N
    /\ frames' = frames + 1
    /\ stores' = << >>
    /\ last' = "hw_received"
    /\ UNCHANGED <<dma, tim, panicked, pool_base, pool, tx, rx_kind, rx_buffers, read_idx,
                   next_tail_idx, rx_dtpr, rx_ready, popped, rx_note>>

----------------------------------------------------------------------------
(* RDesRing of rx_desc.rs: the chained ring *)

RxDescValid_ErrorIgnored(d) == d.rdes0 \cap {"FS", "LS"} = {"FS", "LS"}

\* RDes::valid(): first and last descriptor of the frame, no error
RxDescValid(d) == d.rdes0 \cap {"FS", "LS", "ES"} = {"FS", "LS"}

\* RDes::available(): not owned by the DMA
RxDescAvailable(d) == "OWN" \notin d.rdes0

SetBuffer1_NotOwned(d, buffer) == [d EXCEPT !.rdes2 = buffer]

\* RDes::set_buffer1(buffer) followed by RDes::set_owned()
SetBuffer1Owned(d, buffer) ==
    [d EXCEPT !.rdes2 = buffer, !.rdes0 = d.rdes0 \cup {"OWN"}]

\* RDes::setup(next) for slot x: chained to the next descriptor, the last
\* one ends the ring
Setup(d, x) ==
    IF x < N - 1
    THEN [d EXCEPT !.rdes1 = {"RCH"}, !.rdes3 = x + 1]
    ELSE [d EXCEPT !.rdes1 = {"RCH", "RER"}, !.rdes3 = 0]

\* the replenish step of pop_packet of rx_desc.rs, slot x, in program order
RxDescReplenishStores(x) ==
    << St("address", x),                   \* set_buffer1: rdes2.set
       St("buffer", x),                    \* self.buffers[..].replace(b)
       St("fence_release", x),             \* set_owned: fence(Ordering::Release)
       St("own", x),                       \* set_owned: rdes0 | OWN
       St("fence_seqcst", x),              \* set_owned: fence(Ordering::SeqCst)
       St("fence_release", x),             \* fence(Ordering::Release)
       St("cursor", (x + 1) % N) >>        \* self.next_tail_idx = ...

\* one round of the allocation loop of init of rx_desc.rs
RxDescInitSlotStores(x) ==
    << St("address", x),                   \* set_buffer1: rdes2.set
       St("fence_release", x),             \* set_owned: fence(Ordering::Release)
       St("own", x),                       \* set_owned: rdes0 | OWN
       St("fence_seqcst", x),              \* set_owned: fence(Ordering::SeqCst)
       St("buffer", x) >>                  \* *buf = Some(pkt)

\* RDes::setup of slot x
SetupStores(x) ==
    << St("control", x),                   \* rdes1.set(RXDESC_1_RCH), RER on the last
       St("next", x) >>                    \* set_buffer2: rdes3.set

\* RDesRing::init of rx_desc.rs with k buffers, in program order
RxDescInitStores(k) ==
    (PerSlot([x \in Slots |-> RxDescInitSlotStores(x)], k) \o
     << St("cursor", NextTail(k)) >>) \o
    (PerSlot([x \in Slots |-> SetupStores(x)], N) \o
     << St("list_address", 0),             \* dmardlar().write
        St("start", 0),                    \* dmaomr().modify(set_sr(STARTED))
        St("poll_demand", 0) >>)           \* demand_poll

\* RDesRing::init of rx_desc.rs with a pool that yields k buffers
RxDescInit ==
    /\ ~panicked
    /\ ~rx_ready
    /\ rx_kind = "chained"
    /\ \E k \in 0 .. N :
         IF k = 0
         THEN /\ panicked' = TRUE
              /\ stores' = << >>
              /\ UNCHANGED <<pool, rd, rx_buffers, next_tail_idx, rx_ready>>
         ELSE /\ rd' = [x \in Slots |->
                          Setup(IF x < k THEN SetBuffer1Owned(rd[x], PktAddr(InitPkt(x)))
                                ELSE rd[x], x)]
              /\ rx_buffers' = [x \in Slots |->
                                  IF x < k THEN InitPkt(x) ELSE rx_buffers[x]]
              /\ pool' = pool \ {InitPkt(x) : x \in 0 .. (k - 1)}
              /\ next_tail_idx' = NextTail(k)
              /\ rx_ready' = TRUE
              /\ stores' = RxDescInitStores(k)
              /\ UNCHANGED panicked
    /\ last' = "rx_init"
    /\ UNCHANGED <<dma, tim, pool_base, tx, rx_kind, read_idx, rx_dtpr, hw_rdidx, popped,
                   rx_note, frames>>

RxDescReadOk_TailIgnored == RxDescAvailable(rd[read_idx])

\* read_available && self.next_idx != tail_index
RxDescReadOk == RxDescAvailable(rd[read_idx]) /\ read_idx # TailIndex

\* RDesRing::pop_packet of rx_desc.rs
RxDescPopPacket ==
    /\ ~panicked
    /\ rx_ready
    /\ rx_kind = "chained"
    /\ LET taken == IF RxDescReadOk THEN rx_buffers[read_idx] ELSE 0
           valid == RxDescReadOk /\ RxDescValid(rd[read_idx])
           read1 == IF RxDescReadOk THEN (read_idx + 1) % N ELSE read_idx
           buffers1 == IF RxDescReadOk THEN [rx_buffers EXCEPT ![read_idx] = 0]
                       ELSE rx_buffers
       IN  IF RxDescReadOk /\ taken = 0
           THEN /\ panicked' = TRUE
                /\ stores' = << >>
                /\ UNCHANGED <<pool, rxring, popped, rx_note>>
           ELSE /\ read_idx' = read1
                /\ popped' = (IF valid THEN taken ELSE 0)
                /\ UNCHANGED <<panicked, rx_dtpr>>
                /\ IF Replenish(read1)
                   THEN \E b \in NewPacketBox :
                          IF b = 0
                          THEN /\ rx_buffers' = buffers1
                               /\ pool' = pool \cup Dropped(taken)
                               /\ rx_note' = Note(RxDescReadOk, "failed", valid)
                               /\ stores' = << >>
                               /\ UNCHANGED <<rd, next_tail_idx>>
                          ELSE /\ rx_buffers' = [buffers1 EXCEPT ![next_tail_idx] = b]
                               /\ rd' = [rd EXCEPT ![next_tail_idx] =
                                            SetBuffer1Owned(rd[next_tail_idx], PktAddr(b))]
                               /\ next_tail_idx' = (next_tail_idx + 1) % N
                               /\ pool' = ((pool \ {b}) \cup Dropped(taken))
                                            \cup Dropped(buffers1[next_tail_idx])
                               /\ rx_note' = Note(RxDescReadOk, "ok", valid)
                               /\ stores' = RxDescReplenishStores(next_tail_idx)
                   ELSE /\ rx_buffers' = buffers1
                        /\ pool' = pool \cup Dropped(taken)
                        /\ rx_note' = Note(RxDescReadOk, "none", valid)
                        /\ stores' = << >>
                        /\ UNCHANGED <<rd, next_tail_idx>>
    /\ last' = "pop_packet"
    /\ UNCHANGED <<dma, tim, pool_base, tx, rx_kind, hw_rdidx, rx_ready, frames>>

\* what the engine writes back into rdes0 with a frame: a whole frame, a
\* frame with an error, the first part of a longer frame
RxDescWriteBacks == {{"FS", "LS"}, {"FS", "LS", "ES"}, {"FS"}}

\* the engine stores a frame in the next descriptor it owns, writes the
\* descriptor back and follows the chain
HwReceivedChained ==
    /\ ~panicked
    /\ rx_ready
    /\ rx_kind = "chained"
    /\ frames < MaxFrames
    /\ "OWN" \in rd[hw_rdidx].rdes0
    /\ \E status \in RxDescWriteBacks :
         rd' = [rd EXCEPT ![hw_rdidx].rdes0 = status]
    /\ hw_rdidx' = (IF "RER" \in rd[hw_rdidx].rdes1 THEN 0 ELSE rd[hw_rdidx].rdes3)
    /\ frames' = frames + 1
    /\ stores' = << >>
    /\ last' = "hw_received"
    /\ UNCHANGED <<dma, tim, panicked, pool_base, pool, tx, rx_kind, rx_buffers, read_idx,
                   next_tail_idx, rx_dtpr, rx_ready, popped, rx_note>>

----------------------------------------------------------------------------
(* Specifications *)

Next ==
    \/ StartWrite
    \/ StartRead
    \/ SetWaker
    \/ RequestStopWrite
    \/ RequestStopClear
    \/ HwProgress
    \/ HwTransferComplete
    \/ HwChunkComplete
    \/ HwStopped
    \/ HwFault
    \/ OnIrqInner

Spec == Init /\ [][Next]_vars

NextTx ==
    \/ Transmit
    \/ TxOnInterrupt
    \/ HwTransmitted

SpecTx == InitTx /\ [][NextTx]_vars

NextRx ==
    \/ RDesRingInit
    \/ PopPacket
    \/ HwReceived
    \/ RxDescInit
    \/ RxDescPopPacket
    \/ HwReceivedChained

SpecRx == InitRx /\ [][NextRx]_vars

\* the engine delivers whole frames only
HwReceivedWhole ==
    /\ HwReceived
    /\ rd'[hw_rdidx].rdes3 = {"FD", "LD"}

HwReceivedChainedWhole ==
    /\ HwReceivedChained
    /\ rd'[hw_rdidx].rdes0 = {"FS", "LS"}

NextRxLive ==
    \/ RDesRingInit
    \/ PopPacket
    \/ HwReceivedWhole
    \/ RxDescInit
    \/ RxDescPopPacket
    \/ HwReceivedChainedWhole

\* either ring with a driver that calls init when it is constructed and
\* pop_packet from its poll loop for as long as it runs
SpecRxLive ==
    /\ InitRx
    /\ [][NextRxLive]_vars
    /\ WF_vars(RDesRingInit)
    /\ WF_vars(PopPacket)
    /\ WF_vars(RxDescInit)
    /\ WF_vars(RxDescPopPacket)

\* no call on the transmit ring has been made yet
TxIdle == transmits = 0 /\ result = "none"

\* the transmit ring of descriptors.rs at work while the receive ring of
\* the same file is not set up
EthTx == rx_kind = "tail" /\ ~rx_ready /\ NextTx

\* the receive ring at work while the transmit ring is idle
EthRx == TxIdle /\ NextRxLive

NextHandOff ==
    \/ EthTx
    \/ EthRx

\* the hand-offs of the three rings, one ring at work in each behaviour
SpecHandOff == InitRx /\ [][NextHandOff]_vars

\* start_giant_transfer applied to every length of ChunkLens, and to
\* requests that are odd or within the limit
GiantStart ==
    /\ CanStart
    /\ UNCHANGED <<eth, tim>>
    /\ \E len \in ChunkLens \cup MalformedLens, ptr \in Bases, size \in Sizes :
         StartGiantTransfer("write", ptr, len, size)

NextChunk ==
    \/ GiantStart
    \/ StartWrite
    \/ StartRead

SpecChunk == Init /\ [][NextChunk]_vars

----------------------------------------------------------------------------
(* The basic timer *)

\* Timer::start: stop, reset and set_frequency, then the update interrupt is
\* enabled and the counter started
TimerStart ==
    /\ cen' = TRUE
    /\ uie' = TRUE
    /\ last' = "timer_start"
    /\ UNCHANGED <<ready, update_waker, uif, irq_pending, polled, tick_woken, update_seen>>
    /\ UNCHANGED <<dma, panicked, eth>>

\* Timer::stop
TimerStop ==
    /\ cen' = FALSE
    /\ last' = "timer_stop"
    /\ UNCHANGED <<ready, update_waker, uie, uif, irq_pending, polled, tick_woken,
                   update_seen>>
    /\ UNCHANGED <<dma, panicked, eth>>

\* the running counter overflows: an update event sets the update flag and,
\* when the update interrupt is enabled, pends the interrupt
HwUpdate ==
    /\ cen
    /\ uif' = TRUE
    /\ irq_pending' = (irq_pending \/ uie)
    /\ last' = "hw_update"
    /\ UNCHANGED <<ready, update_waker, cen, uie, polled, tick_woken, update_seen>>
    /\ UNCHANGED <<dma, panicked, eth>>

\* the interrupt is pended with no update event behind it
IrqPended ==
    /\ ~irq_pending
    /\ irq_pending' = TRUE
    /\ last' = "irq_pended"
    /\ UNCHANGED <<ready, update_waker, cen, uie, uif, polled, tick_woken, update_seen>>
    /\ UNCHANGED <<dma, panicked, eth>>

\* clear_update_interrupt(): whether the update flag was set; the flag is
\* clear afterwards
ClearUpdateInterrupt == uif

\* StateInner::on_interrupt
TimerOnInterrupt ==
    /\ irq_pending \/ (uif /\ uie)
    /\ tick_woken' = (tick_woken \/ update_waker)
    /\ update_waker' = FALSE
    /\ ready' = ClearUpdateInterrupt
    /\ uif' = FALSE
    /\ irq_pending' = FALSE
    /\ update_seen' = (update_seen \/ ClearUpdateInterrupt)
    /\ last' = "timer_on_interrupt"
    /\ UNCHANGED <<cen, uie, polled>>
    /\ UNCHANGED <<dma, panicked, eth>>

\* one poll of the future of Timer::tick: the first poll of a call, or the
\* poll after a wake
Tick ==
    /\ polled # "Pending" \/ tick_woken
    /\ update_waker' = TRUE
    /\ tick_woken' = FALSE
    /\ IF ready
         THEN /\ ready' = FALSE
              /\ polled' = "Ready"
              /\ update_seen' = FALSE
         ELSE /\ polled' = "Pending"
              /\ UNCHANGED <<ready, update_seen>>
    /\ last' = "tick"
    /\ UNCHANGED <<cen, uie, uif, irq_pending>>
    /\ UNCHANGED <<dma, panicked, eth>>

NextTimer ==
    \/ TimerStart
    \/ TimerStop
    \/ HwUpdate
    \/ IrqPended
    \/ TimerOnInterrupt
    \/ Tick

SpecTimer == Init /\ [][NextTimer]_vars

----------------------------------------------------------------------------
(* What the request of the last start asks for *)

GiantStarted == last \in {"write_giant", "read_giant"}

\* the chunk count the state holds: two chunks are in the address registers
HeldChunks == remaining_chunks + 2

CeilEstimate(len) == (len + Limit - 1) \div Limit

\* k is the least divisor of len that is at least first
LeastDivisorFrom(len, first, k) ==
    /\ k >= first
    /\ len % k = 0
    /\ \A j \in first..(k - 1) : len % j # 0

ReqChunks ==
    CHOOSE k \in 1..req.len : LeastDivisorFrom(req.len, req.len \div Limit + 1, k)

\* start address of chunk i of the requested buffer
ChunkAddr(i) == Add32(req.addr, i * (req.len \div ReqChunks) * req.size)

\* the engine has taken up chunk 0, 1, ... in order, each once
InOrder(chunks_taken) ==
    \A i \in 1..Len(chunks_taken) : chunks_taken[i] = ChunkAddr(i - 1)

Uninterrupted == req.kind = "giant" /\ ~cancelled /\ ~faulted

----------------------------------------------------------------------------
(* Claims *)

\* C1: between the start of a giant transfer and its completion wake the
\* engine transfers chunk 0, 1, ..., c-1 of the buffer, each once and in
\* increasing order, for odd as for even chunk counts c.
C1_ChunksInOrder ==
    Uninterrupted =>
        /\ Len(hw_chunks) <= ReqChunks
        /\ InOrder(hw_chunks)
        /\ (last = "irq_giant_end" => Len(hw_chunks) = ReqChunks)

\* C2: every completion interrupt handled while remaining_chunks > 0
\* decrements remaining_chunks by exactly one, whatever its parity and the
\* current target; at zero the handler writes the sentinel and does not
\* wake, so that the last completion arrives through the transfer error.
C2_DecrementEach ==
    /\ [][(/\ last' \in IrqLabels
           /\ ~teif /\ giant_transfer_enabled /\ tcif /\ cr.tcie
           /\ remaining_chunks > 0)
          => remaining_chunks' = remaining_chunks - 1]_vars
    /\ [][(/\ last' \in IrqLabels
           /\ ~teif /\ giant_transfer_enabled /\ tcif /\ cr.tcie
           /\ remaining_chunks = 0)
          => /\ (m0ar' = Poison \/ m1ar' = Poison)
             /\ woken' = woken
             /\ giant_transfer_enabled']_vars

\* C3 as stated: the chunk count is the least divisor of L that is at
\* least ceil(L / 0xffff), and chunk_size = L / c.
C3_LeastFromCeil ==
    GiantStarted =>
        /\ LeastDivisorFrom(req.len, CeilEstimate(req.len), HeldChunks)
        /\ chunk_size = req.len \div HeldChunks

\* C3 as amended: the chunk count is the least divisor of L that is at
\* least floor(L / 0xffff) + 1, and chunk_size = L / c.
C3_LeastAboveFloor ==
    GiantStarted =>
        /\ LeastDivisorFrom(req.len, req.len \div Limit + 1, HeldChunks)
        /\ chunk_size = req.len \div HeldChunks

C3_Witness ==
    /\ GiantStarted
    /\ req.len = 2 * Limit
    /\ HeldChunks = 3
    /\ chunk_size = 43690

\* C4: the chunk count c divides L and is at least ceil(L / 0xffff), and
\* chunk_size = L / c is at most 0xffff: the u16 field and the transfer
\* count register hold it untruncated.
C4_ChunkFits ==
    GiantStarted =>
        /\ req.len % HeldChunks = 0
        /\ HeldChunks >= CeilEstimate(req.len)
        /\ chunk_size * HeldChunks = req.len
        /\ chunk_size <= Limit
        /\ ndtr = chunk_size

\* a length whose search went past its first candidate
C4_Witness ==
    /\ GiantStarted
    /\ HeldChunks > req.len \div Limit + 2
    /\ chunk_size * HeldChunks = req.len

\* C5: after start_giant_transfer the state holds chunk_size = L / c,
\* remaining_chunks = c - 2 and the giant flag, M0AR holds the base and M1AR
\* the base plus chunk_size elements; L = 200000 of 2-byte elements gives
\* c = 4, chunk_size = 50000, remaining_chunks = 2.
C5_StateAfterStart ==
    GiantStarted =>
        /\ chunk_size = req.len \div ReqChunks
        /\ remaining_chunks = ReqChunks - 2
        /\ giant_transfer_enabled
        /\ m0ar = req.addr
        /\ m1ar = Add32(req.addr, chunk_size * req.size)
        /\ m1ar = ChunkAddr(1)
        /\ (req.len = 200000 =>
               ReqChunks = 4 /\ chunk_size = 50000 /\ remaining_chunks = 2)

C5_Witness ==
    /\ GiantStarted
    /\ req.len = 200000
    /\ req.size = 2
    /\ remaining_chunks = 2
    /\ chunk_size = 50000
    /\ m1ar = Add32(req.addr, 100000)

\* C6: in a giant transfer that runs without request_stop, the sentinel is
\* written to an address register only by on_irq_inner, with the giant flag
\* set, and only while the engine is on the final chunk c-1, every earlier
\* chunk done.
C6_PoisonOnFinalChunk ==
    [][(/\ req.kind = "giant" /\ ~cancelled
        /\ \/ (m0ar' = Poison /\ m0ar # Poison)
           \/ (m1ar' = Poison /\ m1ar # Poison))
       => /\ last' \in IrqLabels
          /\ giant_transfer_enabled
          /\ cr.en
          /\ Len(hw_chunks) = ReqChunks
          /\ InOrder(hw_chunks)]_vars

\* the stream is at rest: nothing is running, winding down or pending
Quiescent == pc = "idle" /\ ~cr.en /\ ~stopping /\ ~PendingIrq /\ ~panicked

HandlerStep == last' \in IrqLabels

\* C7: request_stop may hit a running simple or giant transfer at any point;
\* however the handler interleaves with its two steps, a final interrupt
\* wakes the waiter that was registered: the stream never comes to rest with
\* that waiter still registered and not woken.
C7_NoOrphanedWaiter == ~(Quiescent /\ awaiting /\ waker)

\* C8: the handler, seeing the transfer-error flag with a giant transfer
\* active and M0AR or M1AR at the sentinel, does not fault: it clears both
\* status flags, disables the channel, clears the giant flag and wakes the
\* registered waiter.
C8_SentinelErrorEndsTransfer ==
    [][(/\ HandlerStep
        /\ teif
        /\ giant_transfer_enabled
        /\ (m0ar = Poison \/ m1ar = Poison))
       => /\ ~panicked'
          /\ ~teif'
          /\ ~tcif'
          /\ ~cr'.en
          /\ ~giant_transfer_enabled'
          /\ ~waker'
          /\ (waker => woken')]_vars

C8_Witness ==
    /\ last = "irq_giant_end"
    /\ req.kind = "giant"
    /\ woken
    /\ ~cr.en
    /\ ~giant_transfer_enabled
    /\ ~teif

\* C9: the handler, seeing the transfer-error flag with no giant transfer
\* active or with neither address register at the sentinel, panics: no
\* waiter is woken, no address register is written, and nothing runs after.
C9_OtherErrorIsFatal ==
    /\ [][(/\ HandlerStep
           /\ teif
           /\ (~giant_transfer_enabled \/ (m0ar # Poison /\ m1ar # Poison)))
          => /\ panicked'
             /\ UNCHANGED <<m0ar, m1ar, waker, woken, cr, giant_transfer_enabled>>]_vars
    /\ [][~panicked]_vars

\* a transfer error on a simple transfer that follows a finished giant one,
\* whose sentinel is still in an address register
C9_Witness ==
    /\ last = "irq_panic"
    /\ panicked
    /\ req.kind = "simple"
    /\ (m0ar = Poison \/ m1ar = Poison)
    /\ ~woken

\* C10: with no giant transfer active the handler, seeing the completion
\* flag with the completion interrupt enabled, disables the channel and
\* wakes the registered waiter; with no completion flag set it neither
\* touches the control register nor wakes.
C10_SimpleCompletion ==
    /\ [][(HandlerStep /\ ~teif /\ ~giant_transfer_enabled /\ tcif /\ cr.tcie)
          => /\ ~cr'.en
             /\ ~waker'
             /\ (waker => woken')]_vars
    /\ [][(HandlerStep /\ ~giant_transfer_enabled /\ ~tcif)
          => UNCHANGED <<cr, waker, woken>>]_vars

C10_Witness ==
    /\ last = "irq_simple_end"
    /\ req.kind = "simple"
    /\ ~cancelled
    /\ woken
    /\ ~cr.en
    /\ ndtr = 0

----------------------------------------------------------------------------
\* C11: remaining_transfers() returns the live NDTR counter when no giant
\* transfer is active (flag clear, or the started request is a simple one),
\* and live counter + remaining_chunks * chunk_size while a giant transfer
\* is active (started, stream enabled, no stop requested).
C11_RemainingTransfers ==
    /\ ~giant_transfer_enabled => GetRemainingTransfers = ndtr
    /\ req.kind = "simple" => GetRemainingTransfers = ndtr
    /\ (req.kind = "giant" /\ cr.en /\ ~cancelled)
          => GetRemainingTransfers = ndtr + remaining_chunks * chunk_size

\* a giant transfer under way with chunks still queued, and a simple one
C11_Witness ==
    /\ req.kind = "giant" /\ cr.en /\ ~cancelled
    /\ remaining_chunks > 0 /\ chunk_size > 1 /\ ndtr < chunk_size
    /\ GetRemainingTransfers = ndtr + remaining_chunks * chunk_size

\* the started transfer ran to its end: the handler ended it and woke the
\* waiter, no stop was requested and nothing panicked
CompletedUncancelled ==
    /\ req.kind \in {"simple", "giant"}
    /\ woken /\ ~cancelled /\ ~panicked
    /\ ~cr.en /\ ~PendingIrq

\* C12: once a transfer (simple or giant) has run to completion without
\* being cancelled and its waiter has been woken, remaining_transfers()
\* returns 0.
C12_ZeroAfterCompletion ==
    CompletedUncancelled => GetRemainingTransfers = 0

\* the step just taken was a start_write or start_read call
StartLabels ==
    {"write_transfer", "write_giant", "write_panic",
     "read_transfer", "read_giant", "read_panic"}

\* C13: for 1 <= len <= 0xFFFF both start_write and start_read start a
\* simple transfer: neither panics and giant_transfer_active is false
\* afterwards, len = 0xFFFF included.
C13_SimpleUpToLimit ==
    (last \in StartLabels /\ req.len >= 1 /\ req.len <= Limit)
        => /\ req.kind = "simple"
           /\ ~panicked
           /\ ~giant_transfer_enabled

\* the step just taken asked for a giant transfer, or was refused
GiantLabels == {"write_giant", "read_giant", "write_panic", "read_panic"}

\* C14: a giant request whose count is odd or does not exceed 0xFFFF is
\* rejected by a panic before any hardware register or channel-state field
\* is written.
C14_MalformedGiantRejected ==
    [][(last' \in GiantLabels /\ (req'.len % 2 # 0 \/ req'.len <= Limit))
          => /\ panicked'
             /\ req'.kind = "rejected"
             /\ UNCHANGED <<chan, waker, regs, ndtr_reload, stopping>>]_vars

\* start_giant_transfer refused an even count within the limit, and an odd
\* one above it, on an untouched channel
C14_Witness ==
    /\ panicked /\ req.kind = "rejected"
    /\ req.len \in {65534, 131071}
    /\ ~cr.en /\ ~giant_transfer_enabled /\ ndtr = 0

SimpleLabels == {"write_transfer", "read_transfer"}

\* C15: chunk_size and remaining_chunks are fully reset before a new
\* transfer of either kind: after start_transfer no leftover chunk_size or
\* remaining_chunks is held, and after start_giant_transfer both hold only
\* the new transfer's values.
C15_FullyReset ==
    /\ last \in SimpleLabels => chunk_size = 0 /\ remaining_chunks = 0
    /\ (last \in GiantLabels /\ req.kind = "giant")
          => /\ chunk_size = req.len \div ReqChunks
             /\ remaining_chunks = ReqChunks - 2

\* C15, as the code has it: start_transfer clears the giant flag and leaves
\* chunk_size and remaining_chunks as they were, so that leftovers are held
\* but not used (remaining_transfers() is the bare counter of the new
\* transfer); start_giant_transfer stores the new transfer's values in both
\* (chunk_size times the chunk count is the new length).
C15_LeftoversGatedByFlag ==
    [][/\ last' \in SimpleLabels
            => /\ ~giant_transfer_enabled'
               /\ UNCHANGED <<chunk_size, remaining_chunks>>
               /\ GetRemainingTransfers' = req'.len
       /\ (last' \in GiantLabels /\ req'.kind = "giant")
            => /\ giant_transfer_enabled'
               /\ chunk_size' * (remaining_chunks' + 2) = req'.len
               /\ chunk_size' <= Limit]_vars

\* a simple transfer started on a channel that still holds the chunk size of
\* an earlier giant transfer
C15_Witness ==
    /\ last \in SimpleLabels
    /\ req.kind = "simple" /\ req.len > 0
    /\ chunk_size > 0
    /\ ~giant_transfer_enabled
    /\ GetRemainingTransfers = req.len

----------------------------------------------------------------------------
(* TDesRing: what the claims speak of *)

\* the engine owns slot x: transmit gave it away, the engine has not yet
\* written it back
HwOwns(x) == "OWN" \in td[x].tdes3

\* the packets the step just taken gave back to the pool
Released == pool' \ pool

\* the engine has written slot x back and transmit has not reused it
WrittenBack(x) == "FD" \in td[x].tdes3 /\ "OWN" \notin td[x].tdes3

Held == {x \in Slots : buffers[x] # 0}

\* every call so far was a transmit: the engine has completed nothing and
\* no buffer has been taken out of the ring
OnlyTransmits ==
    /\ last = "transmit"
    /\ hw_tdidx = 0
    /\ \A x \in Slots : ~WrittenBack(x)
    /\ Cardinality(Held) = (IF transmits <= N THEN transmits ELSE N)

\* C16: on a ring of N slots, all software-owned, N consecutive transmit
\* calls with no hardware completion in between each return Ok and the
\* (N+1)-th returns NoBufferAvailable.
C16_RingFillsAtN ==
    OnlyTransmits
        => /\ transmits <= N => result = "Ok"
           /\ transmits = N + 1 => result = "NoBufferAvailable"

\* C17: available() is false for a slot immediately after a successful
\* transmit into it, and becomes true again only after on_interrupt has
\* observed the slot's ownership returned and taken its buffer: a slot that
\* still holds its buffer is not available.
C17_HeldSlotUnavailable ==
    /\ (last = "transmit" /\ result = "Ok") => ~TDesAvailable(td[Previous])
    /\ \A x \in Held : ~TDesAvailable(td[x])

\* C18: a buffer passed to a successful transmit is held in the slot it was
\* enqueued in; once the engine has completed that descriptor, on_interrupt
\* releases that same buffer, and what on_interrupt gives back to the pool
\* is only ever the buffer of the completed slot before the cursor, once.
C18_SameBufferOnce ==
    [][/\ (last' = "transmit" /\ result' = "Ok")
            => /\ buffers'[tdidx] \in pool
               /\ buffers'[tdidx] \notin pool'
       /\ last' = "tx_on_interrupt"
            => /\ (buffers[Previous] # 0 /\ WrittenBack(Previous))
                    => /\ Released = {buffers[Previous]}
                       /\ buffers'[Previous] = 0
               /\ Released \subseteq {buffers[Previous]}
               /\ Released # {} => WrittenBack(Previous)
               /\ \A x \in Slots \ {Previous} : buffers'[x] = buffers[x]]_vars

\* C19: transmit called while available() is false returns
\* NoBufferAvailable and leaves the ring unchanged: no descriptor field, held
\* buffer, write cursor or tail pointer is modified (and the pool keeps the
\* packet).
C19_RefusedTransmitChangesNothing ==
    [][(last' = "transmit" /\ ~Available)
          => /\ result' = "NoBufferAvailable"
             /\ UNCHANGED <<td, buffers, tdidx, dtpr, pool>>]_vars

\* a transmit was refused on a ring whose slots all hold a buffer
C19_Witness ==
    /\ last = "transmit"
    /\ result = "NoBufferAvailable"
    /\ ~Available
    /\ Held = Slots

\* C20: on_interrupt called while the engine still owns the descriptor just
\* before the write cursor is a no-op that returns Ok: no buffer is released
\* and neither the cursor nor any descriptor changes.
C20_OwnedDescriptorIsNoOp ==
    [][(last' = "tx_on_interrupt" /\ HwOwns(Previous))
          => /\ result' = "Ok"
             /\ Released = {}
             /\ UNCHANGED <<td, buffers, tdidx, dtpr, pool>>]_vars

\* C21: on_interrupt on a descriptor the engine has released, its buffer
\* still held: with the descriptor's error flag set it returns
\* TransmissionError and releases the slot's buffer to the pool, with the
\* flag clear it releases the buffer and returns Ok.
C21_ErrorFlagReported ==
    [][(last' = "tx_on_interrupt" /\ WrittenBack(Previous) /\ buffers[Previous] # 0)
          => /\ Released = {buffers[Previous]}
             /\ buffers'[Previous] = 0
             /\ result' = (IF "ES" \in td[Previous].tdes3
                           THEN "TransmissionError" ELSE "Ok")]_vars

----------------------------------------------------------------------------
(* RDesRing: what the claims speak of *)

\* the word of slot x that carries OWN and the status
RxStatus(x) == IF rx_kind = "tail" THEN rd[x].rdes3 ELSE rd[x].rdes0

\* the engine owns slot x
RxHwOwns(x) == "OWN" \in RxStatus(x)

RxHeld == {x \in Slots : rx_buffers[x] # 0}

PopStep == last' = "pop_packet" /\ ~panicked'

\* C22: pop_packet advances read_idx, by exactly one modulo N, only when the
\* descriptor at read_idx is software-owned and read_idx differs from the
\* tail index (next_tail_idx - 1 mod N); otherwise read_idx is unchanged and
\* no buffer is taken.  So read_idx never moves on from the tail slot.
C22_ReadAdvance ==
    [][PopStep =>
         IF ~RxHwOwns(read_idx) /\ read_idx # (next_tail_idx + N - 1) % N
         THEN read_idx' = (read_idx + 1) % N
         ELSE /\ read_idx' = read_idx
              /\ rx_buffers'[read_idx] = rx_buffers[read_idx]
              /\ popped' = 0
              /\ pool' \subseteq pool]_vars

\* pop_packet consumed a slot and read_idx has come to rest on the tail slot,
\* which the engine has already filled
C22_Witness ==
    /\ last = "pop_packet"
    /\ rx_note.read
    /\ read_idx = TailIndex
    /\ ~RxHwOwns(read_idx)
    /\ rx_buffers[read_idx] # 0

\* C23: next_tail_idx never passes read_idx: a replenishment installs its
\* buffer into a slot that holds none once the read step is done and that
\* the engine does not own, and releases no buffer but the one just read.
C23_TailNeverPassesRead ==
    [][(PopStep /\ rx_note'.alloc = "ok") =>
         /\ (\/ rx_buffers[next_tail_idx] = 0
             \/ (rx_note'.read /\ next_tail_idx = read_idx))
         /\ ~RxHwOwns(next_tail_idx)
         /\ next_tail_idx # read_idx'
         /\ Released \subseteq {rx_buffers[read_idx]}]_vars

\* a replenishment after which the tail has caught up with the read index
C23_Witness ==
    /\ last = "pop_packet"
    /\ rx_note.alloc = "ok"
    /\ next_tail_idx = read_idx
    /\ RxHeld = Slots

\* C24: in the tail-pointer ring, after init and after every pop_packet the
\* tail-pointer register addresses slot (next_tail_idx - 1) mod N.
C24_TailPointerBehindNextTail ==
    (rx_kind = "tail" /\ rx_ready /\ ~panicked) =>
        rx_dtpr = (next_tail_idx + N - 1) % N

\* a replenishing pop_packet has moved the tail pointer around the ring
C24_Witness ==
    /\ rx_kind = "tail"
    /\ last = "pop_packet"
    /\ rx_note.alloc = "ok"
    /\ next_tail_idx = 0
    /\ rx_dtpr = N - 1

\* C25: next_tail_idx equals read_idx only when the ring is fully allocated
\* (all N slots hold a buffer) or fully drained (none does).
C25_EqualOnlyFullOrDrained ==
    next_tail_idx = read_idx => (RxHeld = Slots \/ RxHeld = {})

\* the indices meet away from slot 0 with every slot holding a buffer
C25_Witness ==
    /\ last = "pop_packet"
    /\ next_tail_idx = read_idx
    /\ read_idx = 2
    /\ RxHeld = Slots

\* the flags of slot x show the first and the last segment of a frame, no
\* error and, where the ring has them, no context descriptor
RxWholeFrame(x) ==
    IF rx_kind = "tail"
    THEN /\ {"FD", "LD"} \subseteq rd[x].rdes3
         /\ "ES" \notin rd[x].rdes3
         /\ "CTXT" \notin rd[x].rdes3
    ELSE /\ {"FS", "LS"} \subseteq rd[x].rdes0
         /\ "ES" \notin rd[x].rdes0

C27_OneReplenishmentOrNone ==
    [][PopStep =>
         /\ (rx_note'.alloc # "none" => next_tail_idx # read_idx')
         /\ next_tail_idx' \in {next_tail_idx, (next_tail_idx + 1) % N}
         /\ {x \in Slots : rd'[x] # rd[x]} \subseteq {next_tail_idx}
         /\ Cardinality(pool \ pool') <= 1
         /\ (rx_note'.alloc = "failed" =>
               /\ next_tail_idx' = next_tail_idx
               /\ rd' = rd
               /\ rx_dtpr' = rx_dtpr
               /\ rx_buffers'[next_tail_idx] =
                    (IF rx_note'.read /\ next_tail_idx = read_idx
                     THEN 0 ELSE rx_buffers[next_tail_idx])
               /\ pool \subseteq pool'
               /\ popped' = (IF rx_note'.read /\ RxWholeFrame(read_idx)
                             THEN rx_buffers[read_idx] ELSE 0))]_vars

\* a frame was read and returned by a call whose allocation failed
C27_Witness ==
    /\ last = "pop_packet"
    /\ rx_note.alloc = "failed"
    /\ rx_note.read
    /\ rx_note.valid
    /\ popped # 0
    /\ next_tail_idx # read_idx

\* the number of buffers init got from the pool
InitPopulation == Cardinality(RxHeld)

\* C28: init with a pool that yields k buffers panics for k = 0; for
\* 1 <= k < N exactly slots 0 .. k-1 hold a buffer and are owned by the
\* engine, slots k .. N-1 are empty and owned by software and
\* next_tail_idx = k; for k >= N all slots are populated and
\* next_tail_idx = 0; read_idx is 0 whenever init returns.
C28_InitPopulation ==
    last = "rx_init" =>
        IF panicked
        THEN InitPopulation = 0
        ELSE /\ InitPopulation >= 1
             /\ RxHeld = 0 .. (InitPopulation - 1)
             /\ \A x \in Slots : RxHwOwns(x) <=> x < InitPopulation
             /\ next_tail_idx = (IF InitPopulation < N THEN InitPopulation ELSE 0)
             /\ read_idx = 0
             /\ rx_ready

\* init of the chained ring with a pool that ran out after two buffers
C28_Witness ==
    /\ last = "rx_init"
    /\ ~panicked
    /\ rx_kind = "chained"
    /\ InitPopulation = 2
    /\ next_tail_idx = 2
    /\ RxHwOwns(1)
    /\ ~RxHwOwns(2)

\* every slot holds a buffer and the cursors have met
FullyAllocated == next_tail_idx = read_idx /\ RxHeld = Slots

\* C29: capacity lost to allocation failures is recovered: if from some
\* point on no allocation of pop_packet fails, and pop_packet keeps being
\* called, a ring that init has set up is eventually fully allocated and,
\* once the engine delivers no more frames, stays so.
C29_CapacityRecovered ==
    (<>[][last' = "pop_packet" => rx_note'.alloc # "failed"]_vars) =>
        <>[](panicked \/ ~rx_ready \/ FullyAllocated)

\* init got fewer than N buffers, no frame has arrived, and replenishments
\* alone have filled the ring
C29_Witness ==
    /\ last = "pop_packet"
    /\ rx_note.alloc = "ok"
    /\ frames = 0
    /\ FullyAllocated

----------------------------------------------------------------------------
(* Hand-offs: the order of the stores *)

\* the step just taken handed at least one buffer to the engine
HandedOver == stores # << >>

\* the chained ring makes a slot visible by its ownership bit, the
\* tail-pointer rings by the tail-pointer register
ChainedHandOff == last # "transmit" /\ rx_kind = "chained"

\* store j makes slot x visible to the engine
MakesVisible(j, x) ==
    IF ChainedHandOff
    THEN stores[j].w = "own" /\ stores[j].slot = x
    ELSE stores[j].w = "tail_pointer"

\* slot x is handed over by the step
Handed(x) == \E j \in DOMAIN stores : MakesVisible(j, x)

\* every store to one of the fields of a slot that is handed over comes
\* before the store that makes the slot visible, a release fence between
WrittenBeforeVisible(fields) ==
    \A i \in DOMAIN stores :
        (stores[i].w \in fields /\ Handed(stores[i].slot)) =>
            \E f, j \in DOMAIN stores :
                /\ i < f
                /\ f < j
                /\ stores[f].w = "fence_release"
                /\ MakesVisible(j, stores[i].slot)

\* the cursor is stored after every store that makes a slot visible
CursorAfterVisible ==
    \A c, j \in DOMAIN stores :
        (stores[c].w = "cursor" /\ Handed(stores[j].slot)
           /\ MakesVisible(j, stores[j].slot)) => j < c

\* the cursor is stored before the tail pointer
CursorBeforeTailPointer ==
    \A c, j \in DOMAIN stores :
        (stores[c].w = "cursor" /\ stores[j].w = "tail_pointer") => c < j

\* the control words are stored after the ownership bits and before
\* reception is started
ControlBetweenOwnAndStart ==
    \A c, j \in DOMAIN stores :
        stores[c].w = "control" =>
            /\ (stores[j].w = "own" => j < c)
            /\ (stores[j].w = "start" => c < j)

----------------------------------------------------------------------------
(* Giant transfers: the end, the addresses, the count *)

\* the handler has ended the giant transfer: channel disabled, flag clear
GiantEnded == last = "irq_giant_end" /\ ~cr.en /\ ~giant_transfer_enabled

\* C31: a giant transfer that is neither stopped nor hit by a genuine bus
\* error reaches the state where the channel is disabled, the giant flag is
\* clear and the waiter is woken after exactly c chunk completions: when the
\* handler ends the transfer, the engine has completed c chunks, no more and
\* no fewer.
C31_EndsAfterAllChunks ==
    (Uninterrupted /\ last = "irq_giant_end") =>
        /\ GiantEnded
        /\ Len(hw_chunks) = ReqChunks

\* the slots from read_idx up to, not including, the tail index
AwaitingRead ==
    {x \in Slots : (x + N - read_idx) % N < (TailIndex + N - read_idx) % N}

\* C32: the assertion of pop_packet never fails: once init has set the ring
\* up, every slot from read_idx up to the tail index holds a buffer, so a
\* slot that pop_packet may consume is never an empty one, and no pop_packet
\* call panics.
C32_AssertionHolds ==
    /\ (rx_ready /\ ~panicked) =>
          \A x \in AwaitingRead : rx_buffers[x] # 0
    /\ last = "pop_packet" => ~panicked

\* after an init that got one buffer only, pop_packet has consumed a frame
\* and slots init never populated are still empty
C32_Witness ==
    /\ last = "pop_packet"
    /\ rx_note.read
    /\ AwaitingRead # {}
    /\ \E x \in Slots : rx_buffers[x] = 0 /\ ~RxHwOwns(x) /\ RxStatus(x) = {}

\* C33: start_write and start_read reject a request of length 0, as they do
\* one of odd length above 0xffff, by panicking: the request starts no
\* transfer and the stream is not enabled for it.
C33_ZeroLengthRejected ==
    (req.kind # "none" /\ (req.len = 0 \/ (req.len > Limit /\ req.len % 2 = 1))) =>
        /\ req.kind = "rejected"
        /\ panicked
        /\ hw_chunks = << >>

\* the chunks the engine has been through
Transferred == {hw_chunks[i] : i \in DOMAIN hw_chunks}

\* C34: the waiter of a giant transfer is woken only after the engine has
\* transferred the whole buffer: when it has been woken, with no stop and
\* no genuine bus error, the handler has ended the transfer and every chunk
\* 0 .. c-1 has been transferred.
C34_WokenAfterWholeBuffer ==
    (Uninterrupted /\ woken) =>
        /\ ~cr.en
        /\ \A i \in 0 .. (ReqChunks - 1) : ChunkAddr(i) \in Transferred

\* the start addresses of the chunks of the requested buffer
ChunkStarts == {ChunkAddr(i) : i \in 0 .. (ReqChunks - 1)}

\* C35: during a giant transfer M0AR and M1AR hold the sentinel or the start
\* address of one of the chunks 0 .. c-1 of the buffer: the engine is never
\* pointed at or beyond the end of the buffer.
C35_AddressesInsideBuffer ==
    Uninterrupted =>
        /\ m0ar \in ChunkStarts \cup {Poison}
        /\ m1ar \in ChunkStarts \cup {Poison}

\* C36: remaining_transfers() counts every element not yet transferred:
\* read right after start_giant_transfer, before the engine has moved an
\* element, it returns the full element count L.
C36_FullCountAtStart ==
    GiantStarted => GetRemainingTransfers = req.len

\* C37: after on_interrupt returns, no slot whose descriptor the engine has
\* completed still holds a buffer, however many descriptors the engine
\* completed before the call.
C37_NoBufferLingers ==
    (last = "tx_on_interrupt" /\ ~panicked) =>
        \A x \in Slots : WrittenBack(x) => buffers[x] = 0

\* C38: neither ring releases, replaces or hands out a buffer while the
\* engine owns its descriptor: transmit stores a buffer only into a slot the
\* engine does not own, on_interrupt takes a buffer only from such a slot,
\* pop_packet takes a buffer only from a slot the engine does not own and
\* installs one only into an empty slot.
C38_NothingTakenFromEngine ==
    [][/\ (last' = "transmit" /\ result' = "Ok") => ~HwOwns(tdidx)
       /\ (last' = "tx_on_interrupt" /\ buffers'[Previous] # buffers[Previous])
             => ~HwOwns(Previous)
       /\ (PopStep /\ rx_note'.read) => ~RxHwOwns(read_idx)
       /\ (PopStep /\ rx_note'.alloc = "ok") =>
             \/ rx_buffers[next_tail_idx] = 0
             \/ (rx_note'.read /\ next_tail_idx = read_idx)]_vars

C40_TickNotLost ==
    [][last' = "tick" => (polled' = "Ready" <=> update_seen)]_vars

====
